---- MODULE Spec2Model ----
(***************************************************************************)
(* Model of bot.py: the per-chat task lists (tasks_by_chat) and the seven  *)
(* command handlers.  A handler is a coroutine: everything up to its one   *)
(* `await update.message.reply_text(...)` runs without any other handler   *)
(* running in between (one event loop), so that part is one action; the    *)
(* handler then waits for the reply to be sent and returns (Return).       *)
(* Strings are sequences of one-character strings.                         *)
(***************************************************************************)
EXTENDS Integers, Sequences, FiniteSets, TLC

VARIABLES
    tasks_by_chat,  \* the dict: chat id -> list of (task_text, msg_id, added_by)
    h,              \* per handler invocation: where it is, its update, its response
    run             \* history: per chat, the tasks added since its list was last
                    \* empty, as long as nothing but /add has changed the list

vars == <<tasks_by_chat, h, run>>

\* ---------------------------------------------------------------- bounds
\* Longest task list a chat may hold in the model (guard of add).
MaxLen == 2

\* The handler invocations that may be in flight at the same time.
Procs == {"t1", "t2"}

\* Chat identities (update.effective_chat.id).
Chats == {1, 2}

\* ------------------------------------------------------------ characters
AsciiDigits == {"0", "1", "2", "3", "4", "5", "6", "7", "8", "9"}

\* "ar3" is U+0663 ARABIC-INDIC DIGIT THREE (category Nd: str.isdigit() and
\* int() both accept it); "sup2" is U+00B2 SUPERSCRIPT TWO (category No with
\* the Digit property: str.isdigit() accepts it, int() does not).
OtherDecimals == {"ar3"}

NonDecimalDigits == {"sup2"}

\* The value int() gives a decimal character.
DecimalValue(ch) ==
    CASE ch = "0" -> 0 [] ch = "1" -> 1 [] ch = "2" -> 2 [] ch = "3" -> 3
      [] ch = "4" -> 4 [] ch = "5" -> 5 [] ch = "6" -> 6 [] ch = "7" -> 7
      [] ch = "8" -> 8 [] ch = "9" -> 9 [] ch = "ar3" -> 3

IsSpace(ch) == ch = " "

\* ---------------------------------------------------------------- strings
RECURSIVE LStrip(_)
LStrip(s) == IF s # <<>> /\ IsSpace(Head(s)) THEN LStrip(Tail(s)) ELSE s

RECURSIVE RStrip(_)
RStrip(s) ==
    IF s # <<>> /\ IsSpace(s[Len(s)]) THEN RStrip(SubSeq(s, 1, Len(s) - 1)) ELSE s

\* str.strip()
Strip(s) == RStrip(LStrip(s))

\* The first whitespace-delimited word of a string that starts with none.
RECURSIVE FirstWord(_)
FirstWord(s) ==
    IF s = <<>> \/ IsSpace(Head(s)) THEN <<>> ELSE <<Head(s)>> \o FirstWord(Tail(s))

\* str.split(): the whitespace-delimited words of s, none of them empty.
RECURSIVE Split(_)
Split(s) ==
    LET t == LStrip(s)
        w == FirstWord(t)
    IN  IF t = <<>> THEN <<>>
        ELSE <<w>> \o Split(SubSeq(t, Len(w) + 1, Len(t)))

\* " ".join(words)
RECURSIVE Join(_)
Join(words) ==
    IF words = <<>> THEN <<>>
    ELSE IF Len(words) = 1 THEN words[1]
    ELSE words[1] \o <<" ">> \o Join(Tail(words))

\* str.isdigit(): non-empty and every character is a digit character.
isdigit(tok) ==
    /\ tok # <<>>
    /\ \A i \in 1..Len(tok) : tok[i] \in AsciiDigits \cup OtherDecimals \cup NonDecimalDigits

RECURSIVE DecimalOf(_)
DecimalOf(tok) ==
    IF tok = <<>> THEN 0
    ELSE 10 * DecimalOf(SubSeq(tok, 1, Len(tok) - 1)) + DecimalValue(tok[Len(tok)])

\* int(tok): an optional sign and decimal characters, or ValueError.
int(tok) ==
    LET signed == tok # <<>> /\ Head(tok) \in {"+", "-"}
        body   == IF signed THEN Tail(tok) ELSE tok
        ok     == /\ body # <<>>
                  /\ \A i \in 1..Len(body) : body[i] \in AsciiDigits \cup OtherDecimals
    IN  IF ~ok THEN [ok |-> FALSE, val |-> 0]
        ELSE [ok |-> TRUE,
              val |-> IF signed /\ Head(tok) = "-" THEN 0 - DecimalOf(body)
                      ELSE DecimalOf(body)]

\* ------------------------------------------------------------------ users
\* update.effective_user: username, full_name, first_name ("" when absent).
UserAnn == [username |-> "ann", full_name |-> "Ann Lee", first_name |-> "Ann"]

UserBob == [username |-> "", full_name |-> "Bob Ray", first_name |-> "Bob"]

UserNone == [username |-> "", full_name |-> "", first_name |-> ""]

\* A bug the label could have: the display name is preferred to the handle.
AddedByNameFirst(user) ==
    IF user.full_name # "" THEN <<user.full_name>>
    ELSE IF user.username # "" THEN <<"@", user.username>>
    ELSE <<"Someone">>

\* f"@{user.username}" if user.username else
\*     (user.full_name or user.first_name or "Someone")
AddedBy(user) ==
    IF user.username # "" THEN <<"@", user.username>>
    ELSE IF user.full_name # "" THEN <<user.full_name>>
    ELSE IF user.first_name # "" THEN <<user.first_name>>
    ELSE <<"Someone">>

\* ------------------------------------------------------------------ store
\* A bug the default could have: one list object is the default of every
\* chat, so a new chat starts with what another chat's list holds.
SetDefaultAliased(d, chat_id) ==
    IF chat_id \in DOMAIN d THEN d
    ELSE d @@ (chat_id :> (IF DOMAIN d = {} THEN <<>>
                           ELSE d[CHOOSE c \in DOMAIN d : \A e \in DOMAIN d : c <= e]))

\* tasks_by_chat.setdefault(chat_id, []): the dict afterwards.
SetDefault(d, chat_id) ==
    IF chat_id \in DOMAIN d THEN d ELSE d @@ (chat_id :> <<>>)

\* A bug get_tasks_for could have: it resets the entry instead of keeping it.
get_tasks_for_reset(d, chat_id) ==
    [dict |-> [c \in DOMAIN d \cup {chat_id} |-> IF c = chat_id THEN <<>> ELSE d[c]],
     tasks |-> <<>>]

\* A bug get_tasks_for could have: one list serves every chat.
get_tasks_for_shared(d, chat_id) ==
    [dict |-> SetDefault(d, chat_id), tasks |-> SetDefault(SetDefault(d, chat_id), 1)[1]]

\* get_tasks_for(chat_id): the dict afterwards and the list returned.
get_tasks_for(d, chat_id) ==
    [dict |-> SetDefault(d, chat_id), tasks |-> SetDefault(d, chat_id)[chat_id]]

\* A bug the append could have: tasks.insert(0, task).
ListPrepend(tasks, task) == <<task>> \o tasks

\* tasks.append(task): the list afterwards.
ListAppend(tasks, task) == Append(tasks, task)

\* Bugs the removal could have: tasks.pop() and tasks[index].
PopLast(tasks, index) == SubSeq(tasks, 1, Len(tasks) - 1)

PopNothing(tasks, index) == tasks

\* tasks.pop(index), index zero-based and in range: the list afterwards.
Pop(tasks, index) ==
    SubSeq(tasks, 1, index) \o SubSeq(tasks, index + 2, Len(tasks))

\* A bug the index could have: int(context.args[0]), one-based.
OneBased(n) == n

\* int(context.args[0]) - 1
ZeroBased(n) == n - 1

\* not (index < 0 or index >= len(tasks))
InRange(index, tasks) == ~(index < 0 \/ index >= Len(tasks))

\* A bug the reset could have: tasks_by_chat[chat_id] = tasks[1:].
ClearFirstOnly(d, chat_id) ==
    [c \in DOMAIN d \cup {chat_id} |->
        IF c # chat_id THEN d[c]
        ELSE IF c \in DOMAIN d /\ d[c] # <<>> THEN Tail(d[c]) ELSE <<>>]

\* tasks_by_chat[chat_id] = []
ClearEntry(d, chat_id) ==
    [c \in DOMAIN d \cup {chat_id} |-> IF c = chat_id THEN <<>> ELSE d[c]]

\* What a command observes as the chat's list: empty when the chat has no entry.
Snapshot(d, chat_id) == IF chat_id \in DOMAIN d THEN d[chat_id] ELSE <<>>

\* --------------------------------------------------------------- handlers
NoTask == [text |-> <<>>, msg_id |-> 0, added_by |-> <<>>]

\* A handler that is not running.
Idle ==
    [pc |-> "idle", cmd |-> "", chat |-> 0, args |-> <<>>, user |-> UserNone,
     resp |-> "", task |-> NoTask, lines |-> <<>>, reply_to |-> 0, seen |-> <<>>]

\* A handler suspended in `await update.message.reply_text(...)`: the update it
\* handles and the response being sent: its kind, the task and the lines its
\* text is formatted from, and reply_to_message_id (0: none).  seen is the
\* list as /done found it.
Awaiting(u, resp, task, lines, reply_to, seen) ==
    [pc |-> "await", cmd |-> u.cmd, chat |-> u.chat, args |-> u.args, user |-> u.user,
     resp |-> resp, task |-> task, lines |-> lines, reply_to |-> reply_to,
     seen |-> seen]

\* A handler that ended by raising exc: no response is sent.
Raised(u, exc, seen) ==
    [pc |-> "raised", cmd |-> u.cmd, chat |-> u.chat, args |-> u.args, user |-> u.user,
     resp |-> exc, task |-> NoTask, lines |-> <<>>, reply_to |-> 0, seen |-> seen]

\* /start
start(p, u) ==
    /\ h[p].pc = "idle"
    /\ u.cmd = "start"
    /\ h' = [h EXCEPT ![p] = Awaiting(u, "Welcome", NoTask, <<>>, 0, <<>>)]
    /\ UNCHANGED <<tasks_by_chat, run>>

\* /help
help_cmd(p, u) ==
    /\ h[p].pc = "idle"
    /\ u.cmd = "help"
    /\ h' = [h EXCEPT ![p] = Awaiting(u, "Help", NoTask, <<>>, 0, <<>>)]
    /\ UNCHANGED <<tasks_by_chat, run>>

\* A bug /add could have: it sends its confirmation first and appends after
\* the await, so that handlers started later take effect before it.
add_reply_first(p, u) ==
    LET task_text == Strip(Join(Split(u.args)))
        added_by  == AddedBy(u.user)
        got       == get_tasks_for(tasks_by_chat, u.chat)
        task      == [text |-> task_text, msg_id |-> u.message_id, added_by |-> added_by]
    IN  /\ u.cmd = "add"
        /\ \/ /\ h[p].pc = "idle"
              /\ h' = [h EXCEPT ![p] =
                          IF task_text = <<>>
                          THEN Awaiting(u, "EmptyArgument", NoTask, <<>>, 0, <<>>)
                          ELSE [Awaiting(u, "Added", task, <<>>, 0, <<>>)
                                   EXCEPT !.pc = "replying"]]
              /\ UNCHANGED <<tasks_by_chat, run>>
           \/ /\ h[p].pc = "replying"
              /\ h[p].chat = u.chat /\ h[p].args = u.args /\ h[p].task = task
              /\ Len(got.tasks) < MaxLen
              /\ tasks_by_chat' =
                     [got.dict EXCEPT ![u.chat] = ListAppend(got.tasks, task)]
              /\ h' = [h EXCEPT ![p] = Idle]
              /\ run' = [run EXCEPT ![u.chat] =
                            IF @.only_adds
                            THEN [@ EXCEPT !.added = Append(@, task)]
                            ELSE @]

\* A bug /add could have: the text is not tested, so "/add" alone or with
\* only blanks stores a task.
add_unchecked(p, u) ==
    LET task_text == Strip(Join(Split(u.args)))
        added_by  == AddedBy(u.user)
        got       == get_tasks_for(tasks_by_chat, u.chat)
        task      == [text |-> task_text, msg_id |-> u.message_id, added_by |-> added_by]
    IN  /\ h[p].pc = "idle"
        /\ u.cmd = "add"
        /\ Len(got.tasks) < MaxLen
        /\ tasks_by_chat' =
               [got.dict EXCEPT ![u.chat] = ListAppend(got.tasks, task)]
        /\ h' = [h EXCEPT ![p] = Awaiting(u, "Added", task, <<>>, 0, <<>>)]
        /\ run' = [run EXCEPT ![u.chat] =
                      IF @.only_adds
                      THEN [@ EXCEPT !.added = Append(@, task)]
                      ELSE @]

\* /add
add(p, u) ==
    LET task_text == Strip(Join(Split(u.args)))
        added_by  == AddedBy(u.user)
        got       == get_tasks_for(tasks_by_chat, u.chat)
        task      == [text |-> task_text, msg_id |-> u.message_id, added_by |-> added_by]
    IN  /\ h[p].pc = "idle"
        /\ u.cmd = "add"
        /\ IF task_text = <<>>
           THEN /\ h' = [h EXCEPT ![p] =
                            Awaiting(u, "EmptyArgument", NoTask, <<>>, 0, <<>>)]
                /\ UNCHANGED <<tasks_by_chat, run>>
           ELSE /\ Len(got.tasks) < MaxLen
                /\ tasks_by_chat' =
                       [got.dict EXCEPT ![u.chat] = ListAppend(got.tasks, task)]
                /\ h' = [h EXCEPT ![p] = Awaiting(u, "Added", task, <<>>, 0, <<>>)]
                /\ run' = [run EXCEPT ![u.chat] =
                              IF @.only_adds
                              THEN [@ EXCEPT !.added = Append(@, task)]
                              ELSE @]

\* A bug the numbering could have: f"{i}. ..." with the index of enumerate.
LinesFromZero(tasks) ==
    [i \in 1..Len(tasks) |->
        [n |-> i - 1, text |-> tasks[i].text, by |-> tasks[i].added_by]]

\* f"{i+1}. {t[0]} (by {t[2]})" for i, t in enumerate(tasks)
Lines(tasks) ==
    [i \in 1..Len(tasks) |->
        [n |-> i, text |-> tasks[i].text, by |-> tasks[i].added_by]]

\* /list
list_tasks(p, u) ==
    LET got == get_tasks_for(tasks_by_chat, u.chat)
    IN  /\ h[p].pc = "idle"
        /\ u.cmd = "list"
        /\ tasks_by_chat' = got.dict
        /\ IF got.tasks = <<>>
           THEN h' = [h EXCEPT ![p] = Awaiting(u, "NoTasks", NoTask, <<>>, 0, <<>>)]
           ELSE h' = [h EXCEPT ![p] =
                         Awaiting(u, "Listing", NoTask, Lines(got.tasks), 0, <<>>)]
        /\ UNCHANGED run

\* A bug the checks could have: the argument is looked at before the list,
\* so a bad argument on an empty list is answered as a bad argument.
GotoOutcomeArgsFirst(tasks, text) ==
    LET args  == Split(text)
        n     == int(args[1])
        index == ZeroBased(n.val)
        Ends(pc, resp, i, task, reply_to) ==
            [pc |-> pc, resp |-> resp, index |-> i, task |-> task,
             reply_to |-> reply_to]
    IN  IF args = <<>> \/ ~isdigit(args[1])
        THEN Ends("await", "InvalidArgument", -1, NoTask, 0)
        ELSE IF tasks = <<>>
        THEN Ends("await", "NoTasks", -1, NoTask, 0)
        ELSE IF ~n.ok
        THEN Ends("raised", "ValueError", -1, NoTask, 0)
        ELSE IF ~InRange(index, tasks)
        THEN Ends("await", "OutOfRange", -1, NoTask, 0)
        ELSE Ends("await", "Pointer", index, tasks[index + 1],
                  tasks[index + 1].msg_id)

\* The checks of /goto on the list it got and the text after the command:
\* how the handler ends (pc), with which response or exception (resp), and
\* on success the index, the task there and the message replied to.
GotoOutcome(tasks, text) ==
    LET args  == Split(text)
        n     == int(args[1])
        index == ZeroBased(n.val)
        Ends(pc, resp, i, task, reply_to) ==
            [pc |-> pc, resp |-> resp, index |-> i, task |-> task,
             reply_to |-> reply_to]
    IN  IF tasks = <<>>
        THEN Ends("await", "NoTasks", -1, NoTask, 0)
        ELSE IF args = <<>> \/ ~isdigit(args[1])
        THEN Ends("await", "InvalidArgument", -1, NoTask, 0)
        ELSE IF ~n.ok
        THEN Ends("raised", "ValueError", -1, NoTask, 0)
        ELSE IF ~InRange(index, tasks)
        THEN Ends("await", "OutOfRange", -1, NoTask, 0)
        ELSE Ends("await", "Pointer", index, tasks[index + 1],
                  tasks[index + 1].msg_id)

\* /goto
goto_task(p, u) ==
    LET got == get_tasks_for(tasks_by_chat, u.chat)
        o   == GotoOutcome(got.tasks, u.args)
    IN  /\ h[p].pc = "idle"
        /\ u.cmd = "goto"
        /\ tasks_by_chat' = got.dict
        /\ h' = [h EXCEPT ![p] =
                 IF o.pc = "raised"
                 THEN Raised(u, o.resp, <<>>)
                 ELSE Awaiting(u, o.resp, o.task, <<>>, o.reply_to, <<>>)]
        /\ UNCHANGED run

\* A bug /done could have: it waits (an await) between the range check and
\* the removal, so that other handlers run in between and the index is stale.
done_task_split(p, u) ==
    LET got   == get_tasks_for(tasks_by_chat, u.chat)
        args  == Split(u.args)
        n     == int(args[1])
        index == ZeroBased(n.val)
        valid == /\ got.tasks # <<>> /\ args # <<>> /\ isdigit(args[1]) /\ n.ok
                 /\ InRange(index, got.tasks)
    IN  /\ u.cmd = "done"
        /\ \/ /\ h[p].pc = "idle"
              /\ tasks_by_chat' = got.dict
              /\ UNCHANGED run
              /\ h' = [h EXCEPT ![p] =
                       IF valid
                       THEN [Awaiting(u, "", NoTask, <<>>, 0, got.tasks)
                                EXCEPT !.pc = "checked"]
                       ELSE IF got.tasks = <<>>
                       THEN Awaiting(u, "NoTasks", NoTask, <<>>, 0, got.tasks)
                       ELSE IF args = <<>> \/ ~isdigit(args[1])
                       THEN Awaiting(u, "InvalidArgument", NoTask, <<>>, 0, got.tasks)
                       ELSE IF ~n.ok
                       THEN Raised(u, "ValueError", got.tasks)
                       ELSE Awaiting(u, "OutOfRange", NoTask, <<>>, 0, got.tasks)]
           \/ /\ h[p].pc = "checked"
              /\ h[p].chat = u.chat /\ h[p].args = u.args
              /\ IF index < Len(got.tasks)
                 THEN /\ tasks_by_chat' =
                            [got.dict EXCEPT ![u.chat] = Pop(got.tasks, index)]
                      /\ h' = [h EXCEPT ![p] =
                                  Awaiting(u, "Completed", got.tasks[index + 1], <<>>,
                                           0, h[p].seen)]
                      /\ run' = [run EXCEPT ![u.chat] =
                                    [only_adds |-> Pop(got.tasks, index) = <<>>,
                                     added |-> <<>>]]
                 ELSE /\ tasks_by_chat' = got.dict
                      /\ h' = [h EXCEPT ![p] = Raised(u, "IndexError", h[p].seen)]
                      /\ UNCHANGED run

\* A bug /done could have: it gets the list, waits (an await), and then
\* removes from the list object it got; after a /clear in between that object
\* is no longer the chat's entry, so the task it reports done was of a
\* discarded list and the chat's entry is not touched.
done_task_stale(p, u) ==
    LET got   == get_tasks_for(tasks_by_chat, u.chat)
        args  == Split(u.args)
        n     == int(args[1])
        index == ZeroBased(n.val)
        valid == /\ got.tasks # <<>> /\ args # <<>> /\ isdigit(args[1]) /\ n.ok
                 /\ InRange(index, got.tasks)
        held  == h[p].seen
    IN  /\ u.cmd = "done"
        /\ \/ /\ h[p].pc = "idle"
              /\ tasks_by_chat' = got.dict
              /\ UNCHANGED run
              /\ h' = [h EXCEPT ![p] =
                       IF valid
                       THEN [Awaiting(u, "", NoTask, <<>>, 0, got.tasks)
                                EXCEPT !.pc = "checked"]
                       ELSE IF got.tasks = <<>>
                       THEN Awaiting(u, "NoTasks", NoTask, <<>>, 0, got.tasks)
                       ELSE IF args = <<>> \/ ~isdigit(args[1])
                       THEN Awaiting(u, "InvalidArgument", NoTask, <<>>, 0, got.tasks)
                       ELSE IF ~n.ok
                       THEN Raised(u, "ValueError", got.tasks)
                       ELSE Awaiting(u, "OutOfRange", NoTask, <<>>, 0, got.tasks)]
           \/ /\ h[p].pc = "checked"
              /\ h[p].chat = u.chat /\ h[p].args = u.args
              /\ h' = [h EXCEPT ![p] =
                          Awaiting(u, "Completed", held[index + 1], <<>>, 0, held)]
              /\ IF got.tasks = held
                 THEN /\ tasks_by_chat' =
                            [got.dict EXCEPT ![u.chat] = Pop(held, index)]
                      /\ run' = [run EXCEPT ![u.chat] =
                                    [only_adds |-> Pop(held, index) = <<>>,
                                     added |-> <<>>]]
                 ELSE /\ tasks_by_chat' = got.dict
                      /\ UNCHANGED run

\* /done
done_task(p, u) ==
    LET got   == get_tasks_for(tasks_by_chat, u.chat)
        args  == Split(u.args)
        n     == int(args[1])
        index == ZeroBased(n.val)
        left  == Pop(got.tasks, index)
    IN  /\ h[p].pc = "idle"
        /\ u.cmd = "done"
        /\ IF got.tasks = <<>>
           THEN /\ tasks_by_chat' = got.dict
                /\ h' = [h EXCEPT ![p] =
                            Awaiting(u, "NoTasks", NoTask, <<>>, 0, got.tasks)]
                /\ UNCHANGED run
           ELSE IF args = <<>> \/ ~isdigit(args[1])
           THEN /\ tasks_by_chat' = got.dict
                /\ h' = [h EXCEPT ![p] =
                            Awaiting(u, "InvalidArgument", NoTask, <<>>, 0, got.tasks)]
                /\ UNCHANGED run
           ELSE IF ~n.ok
           THEN /\ tasks_by_chat' = got.dict
                /\ h' = [h EXCEPT ![p] = Raised(u, "ValueError", got.tasks)]
                /\ UNCHANGED run
           ELSE IF ~InRange(index, got.tasks)
           THEN /\ tasks_by_chat' = got.dict
                /\ h' = [h EXCEPT ![p] =
                            Awaiting(u, "OutOfRange", NoTask, <<>>, 0, got.tasks)]
                /\ UNCHANGED run
           ELSE /\ tasks_by_chat' = [got.dict EXCEPT ![u.chat] = left]
                /\ h' = [h EXCEPT ![p] =
                            Awaiting(u, "Completed", got.tasks[index + 1], <<>>, 0,
                                     got.tasks)]
                /\ run' = [run EXCEPT ![u.chat] =
                              [only_adds |-> left = <<>>, added |-> <<>>]]

\* A bug /clear could have: the confirmation is sent first and the entry is
\* replaced after the await.
clear_tasks_reply_first(p, u) ==
    /\ u.cmd = "clear"
    /\ \/ /\ h[p].pc = "idle"
          /\ h' = [h EXCEPT ![p] = Awaiting(u, "Cleared", NoTask, <<>>, 0, <<>>)]
          /\ UNCHANGED <<tasks_by_chat, run>>
       \/ /\ h[p].pc = "await" /\ h[p].cmd = "clear" /\ h[p].chat = u.chat
          /\ tasks_by_chat' = ClearEntry(tasks_by_chat, u.chat)
          /\ h' = [h EXCEPT ![p] = Idle]
          /\ run' = [run EXCEPT ![u.chat] = [only_adds |-> TRUE, added |-> <<>>]]

\* /clear
clear_tasks(p, u) ==
    /\ h[p].pc = "idle"
    /\ u.cmd = "clear"
    /\ tasks_by_chat' = ClearEntry(tasks_by_chat, u.chat)
    /\ h' = [h EXCEPT ![p] = Awaiting(u, "Cleared", NoTask, <<>>, 0, <<>>)]
    /\ run' = [run EXCEPT ![u.chat] = [only_adds |-> TRUE, added |-> <<>>]]

\* The reply has been sent (or sending it has failed) and the handler is left,
\* or the exception it raised has left it: the invocation is over.
Return(p) ==
    /\ h[p].pc \in {"await", "raised"}
    /\ h' = [h EXCEPT ![p] = Idle]
    /\ UNCHANGED <<tasks_by_chat, run>>

\* ----------------------------------------------------------------- inputs
\* A decoded command: the command, the chat, the text after the command
\* (context.args is its split), the id of the message and its sender.
Update(cmd, chat, args, message_id, user) ==
    [cmd |-> cmd, chat |-> chat, args |-> args, message_id |-> message_id,
     user |-> user]

\* The text after /goto and /done: none, in and out of range, signed, a
\* word, a number followed by a word, a two-digit number, a non-ASCII
\* decimal digit and a digit character that is no decimal.
NumberTexts ==
    {<<>>, <<"0">>, <<"1">>, <<"2">>, <<"1", "2">>, <<"-", "1">>, <<"x">>,
     <<"1", " ", "x">>, <<"ar3">>, <<"sup2">>}

\* The second chat receives few commands: it is there to be left alone.
OtherChatUpdates ==
    { Update("add", 2, <<"a">>, 201, UserAnn),
      Update("done", 2, <<"1">>, 200, UserAnn),
      Update("goto", 2, <<"1">>, 200, UserAnn),
      Update("list", 2, <<>>, 200, UserAnn),
      Update("clear", 2, <<>>, 200, UserAnn) }

\* The updates of the specification with overlapping handlers.
Updates ==
    { Update(cmd, 1, <<>>, 100, UserAnn) : cmd \in {"start", "help", "list", "clear"} }
    \cup { Update("add", 1, <<"a">>, 101, UserAnn),
           Update("add", 1, <<"b">>, 102, UserNone),
           Update("add", 1, <<>>, 103, UserAnn) }
    \cup { Update(cmd, 1, s, 100, UserAnn) :
              cmd \in {"goto", "done"}, s \in {<<>>, <<"1">>, <<"2">>} }
    \cup OtherChatUpdates

\* The updates of the specification with one handler at a time.
SeqUpdates ==
    { Update(cmd, 1, <<>>, 100, UserAnn) : cmd \in {"start", "help", "list", "clear"} }
    \cup { Update("add", 1, <<"a">>, 101, u) : u \in {UserAnn, UserBob, UserNone} }
    \cup { Update("add", 1, <<" ", "b", " ", " ", "c", " ">>, 102, UserAnn) }
    \cup { Update("add", 1, s, 103, UserAnn) : s \in {<<>>, <<" ">>, <<" ", " ">>} }
    \cup { Update(cmd, 1, s, 100, UserAnn) : cmd \in {"goto", "done"}, s \in NumberTexts }
    \cup OtherChatUpdates

\* ---------------------------------------------------------- specification
Init ==
    /\ tasks_by_chat = <<>>
    /\ h = [p \in Procs |-> Idle]
    /\ run = [c \in Chats |-> [only_adds |-> TRUE, added |-> <<>>]]

\* Handlers overlap: a handler may start while others wait for their reply
\* to be sent.
Next ==
    \/ \E p \in Procs, u \in Updates : start(p, u)
    \/ \E p \in Procs, u \in Updates : help_cmd(p, u)
    \/ \E p \in Procs, u \in Updates : add(p, u)
    \/ \E p \in Procs, u \in Updates : list_tasks(p, u)
    \/ \E p \in Procs, u \in Updates : goto_task(p, u)
    \/ \E p \in Procs, u \in Updates : done_task(p, u)
    \/ \E p \in Procs, u \in Updates : clear_tasks(p, u)
    \/ \E p \in Procs : Return(p)

Spec == Init /\ [][Next]_vars

\* One update is handled at a time, each to its end, with every kind of
\* argument text.
SeqNext ==
    \/ \E u \in SeqUpdates : start("t1", u)
    \/ \E u \in SeqUpdates : help_cmd("t1", u)
    \/ \E u \in SeqUpdates : add("t1", u)
    \/ \E u \in SeqUpdates : list_tasks("t1", u)
    \/ \E u \in SeqUpdates : goto_task("t1", u)
    \/ \E u \in SeqUpdates : done_task("t1", u)
    \/ \E u \in SeqUpdates : clear_tasks("t1", u)
    \/ Return("t1")

SeqSpec == Init /\ [][SeqNext]_vars

\* The event loop resumes a handler when the send it awaits has completed or
\* failed: a handler that has started is eventually left.
LiveSeqSpec == SeqSpec /\ WF_vars(Return("t1"))

\* ------------------------------------------------------------------ claims
\* The list a chat's commands observe, now and after the step.
List(c) == Snapshot(tasks_by_chat, c)

ListAfter(c) == Snapshot(tasks_by_chat', c)

\* The handler p runs, in this step, from its start to its await (or raise).
Runs(p, cmd) == h[p].pc = "idle" /\ h'[p].pc # "idle" /\ h'[p].cmd = cmd

\* The responses that report an error to the user.
ErrorResponses == {"EmptyArgument", "NoTasks", "InvalidArgument", "OutOfRange"}

\* The text of the number k, 1 <= k <= 9, in ASCII digits.
Numeral(k) == <<<<"1", "2", "3", "4", "5", "6", "7", "8", "9">>[k]>>

\* old with its k-th element left out is new.
Without(old, k, new) ==
    /\ Len(new) = Len(old) - 1
    /\ \A i \in 1..(k - 1) : new[i] = old[i]
    /\ \A i \in k..Len(new) : new[i] = old[i + 1]

\* C1: after a run of successful /add commands on a chat that started from an
\* empty list, with no /done or /clear in between, the chat's list is the
\* added tasks in call order: the i-th added task is at position i and the
\* length is the number of adds.
C1_AddsInCallOrder ==
    \A c \in Chats : run[c].only_adds => List(c) = run[c].added

C1_Witness ==
    \E c \in Chats :
        /\ run[c].only_adds
        /\ Len(run[c].added) = 2
        /\ run[c].added[1] # run[c].added[2]
        /\ List(c) = run[c].added

\* Two /done handlers in flight on one chat, both for position k, the second
\* having found the list as the first left it.
SecondDone(p, q, k) ==
    /\ p # q
    /\ h[p].pc = "await" /\ h[p].cmd = "done" /\ h[p].resp = "Completed"
    /\ h[q].pc = "await" /\ h[q].cmd = "done" /\ h[q].resp = "Completed"
    /\ h[p].chat = h[q].chat
    /\ h[p].args = Numeral(k) /\ h[q].args = Numeral(k)
    /\ Len(h[p].seen) > k
    /\ Without(h[p].seen, k, h[q].seen)

\* C2: /done k with 1 <= k <= len succeeds and leaves the old list with
\* exactly its k-th element removed, the others in their order (those after
\* k one position down); a second /done k then removes the element that was
\* at position k + 1.
C2_DoneStep ==
    \A p \in Procs : \A k \in 1..Len(List(h'[p].chat)) :
        Runs(p, "done") /\ h'[p].args = Numeral(k)
        => /\ h'[p].pc = "await"
           /\ h'[p].resp = "Completed"
           /\ h'[p].task = List(h'[p].chat)[k]
           /\ Without(List(h'[p].chat), k, ListAfter(h'[p].chat))

C2_SecondDone ==
    \A p, q \in Procs : \A k \in 1..9 :
        SecondDone(p, q, k) => h[q].task = h[p].seen[k + 1]

C2_DoneRemovesAt == [][C2_DoneStep /\ C2_SecondDone']_vars

C2_Witness ==
    \E p, q \in Procs : \E k \in 1..9 :
        /\ SecondDone(p, q, k)
        /\ h[p].task # h[q].task
        /\ h[q].task = h[p].seen[k + 1]

\* C3: an invocation that ends in an error response leaves the task list of
\* every chat as it was.
C3_ErrorsMutateNothing ==
    [][\A p \in Procs :
        h[p].pc = "idle" /\ h'[p].pc = "await" /\ h'[p].resp \in ErrorResponses
        => \A c \in Chats : ListAfter(c) = List(c)]_vars

C3_Witness ==
    /\ List(1) # <<>>
    /\ h["t1"].pc = "await"
    /\ h["t1"].chat = 1
    /\ \/ h["t1"].cmd = "done" /\ h["t1"].resp = "OutOfRange"
       \/ h["t1"].cmd = "goto" /\ h["t1"].resp = "InvalidArgument"
       \/ h["t1"].cmd = "add" /\ h["t1"].resp = "EmptyArgument" /\ h["t1"].args # <<>>

\* C4: /clear never fails and leaves the chat's list empty whatever it was
\* (no entry, empty, or not empty); on a chat it has just cleared it changes
\* nothing, so twice is the same as once.
C4_ClearEmpties ==
    [][\A p \in Procs :
        Runs(p, "clear")
        => /\ h'[p].pc = "await"
           /\ h'[p].resp = "Cleared"
           /\ ListAfter(h'[p].chat) = <<>>
           /\ h'[p].chat \in DOMAIN tasks_by_chat'
           /\ (h'[p].chat \in DOMAIN tasks_by_chat /\ List(h'[p].chat) = <<>>
               => tasks_by_chat' = tasks_by_chat)]_vars

C4_Witness ==
    \E p, q \in Procs :
        /\ p # q
        /\ h[p].pc = "await" /\ h[p].cmd = "clear"
        /\ h[q].pc = "await" /\ h[q].cmd = "clear"
        /\ h[p].chat = h[q].chat
        /\ List(h[p].chat) = <<>>
        /\ \E c \in Chats : c # h[p].chat /\ List(c) # <<>>

\* The message ids of the /add updates a chat receives.
AddIdsOf ==
    [c \in Chats |->
        { u.message_id :
            u \in { v \in Updates \cup SeqUpdates : v.cmd = "add" /\ v.chat = c } }]

\* C5: a command issued in one chat never changes the list (or the entry) of
\* another chat, and a task added in a chat only ever appears in that chat's
\* list.
C5_ChatIsolation ==
    [][/\ \A p \in Procs :
            h[p].pc = "idle" /\ h'[p].pc # "idle"
            => \A c \in Chats \ {h'[p].chat} :
                  /\ ListAfter(c) = List(c)
                  /\ (c \in DOMAIN tasks_by_chat') = (c \in DOMAIN tasks_by_chat)
       /\ \A c \in Chats : \A i \in 1..Len(ListAfter(c)) :
            ListAfter(c)[i].msg_id \in AddIdsOf[c]]_vars

C5_Witness ==
    /\ List(1) # <<>>
    /\ List(2) # <<>>
    /\ h["t1"].pc = "await" /\ h["t1"].chat = 1 /\ h["t1"].cmd = "add"
    /\ h["t1"].resp = "Added"
    /\ h["t2"].pc = "await" /\ h["t2"].chat = 2 /\ h["t2"].cmd = "add"
    /\ h["t2"].resp = "Added"

\* What one command alone does to the list old of its chat: the response and
\* the list it leaves.  args is the text after the command, task the task
\* the response names.
SerialOutcome(cmd, args, old, resp, task, new) ==
    CASE cmd = "add" ->
            \/ resp = "EmptyArgument" /\ new = old
            \/ resp = "Added" /\ new = old \o <<task>>
      [] cmd = "clear" -> resp = "Cleared" /\ new = <<>>
      [] cmd \in {"done", "goto"} ->
            IF old = <<>> THEN resp = "NoTasks" /\ new = old
            ELSE IF args = <<>> THEN resp = "InvalidArgument" /\ new = old
            ELSE \A k \in 1..9 :
                    args = Numeral(k)
                    => IF k > Len(old) THEN resp = "OutOfRange" /\ new = old
                       ELSE /\ task = old[k]
                            /\ IF cmd = "done"
                               THEN resp = "Completed" /\ Without(old, k, new)
                               ELSE resp = "Pointer" /\ new = old
      [] OTHER -> new = old

\* C6: handlers that overlap on a chat behave as if run one after the other.
\* The store changes only in a step in which one handler runs from its start
\* to its await, nothing else moving; a suspended handler does nothing but
\* return, its response as it was; and what a handler responds and leaves is
\* what the command alone does to the list as it is at that step, so nothing
\* comes between the range check of /done or /goto and its removal or read.
C6_SerialStep ==
    /\ tasks_by_chat' # tasks_by_chat
       => \E p \in Procs :
             /\ h[p].pc = "idle" /\ h'[p].pc # "idle"
             /\ \A q \in Procs \ {p} : h'[q] = h[q]
    /\ \A p \in Procs :
          h[p].pc # "idle"
          => \/ h'[p] = h[p]
             \/ h'[p] = Idle /\ tasks_by_chat' = tasks_by_chat
    /\ \A p \in Procs :
          h[p].pc = "idle" /\ h'[p].pc # "idle"
          => /\ h'[p].pc = "await"
             /\ SerialOutcome(h'[p].cmd, h'[p].args, List(h'[p].chat), h'[p].resp,
                              h'[p].task, ListAfter(h'[p].chat))

C6_Linearizable == [][C6_SerialStep]_vars

C6_Witness ==
    \E p, q \in Procs :
        /\ p # q
        /\ h[p].chat = h[q].chat
        /\ h[p].pc = "await" /\ h[p].cmd = "done" /\ h[p].resp = "Completed"
        /\ h[q].pc = "await" /\ h[q].cmd = "add" /\ h[q].resp = "Added"
        /\ Len(h[p].seen) = 2
        /\ h[p].task = h[p].seen[1]
        /\ List(h[p].chat) = <<h[p].seen[2], h[q].task>>

\* Two /done 1 that overlap on a chat whose list was <<A, B>>: the first is
\* suspended, having removed A, and the second now runs on the list <<B>>.
RacingDone(p, q) ==
    /\ p # q
    /\ h[p].pc = "await" /\ h[p].cmd = "done" /\ h[p].args = Numeral(1)
    /\ h[p].resp = "Completed"
    /\ Len(h[p].seen) = 2
    /\ h[p].seen[1] # h[p].seen[2]
    /\ h'[p] = h[p]
    /\ Runs(q, "done") /\ h'[q].args = Numeral(1)
    /\ h'[q].chat = h[p].chat
    /\ List(h[p].chat) = <<h[p].seen[2]>>

\* C7 as claimed: two overlapping /done 1 on <<A, B>> end with exactly one
\* element, B, and the second does not end in an error.
C7_OneElementRemains ==
    [][\A p, q \in Procs :
        RacingDone(p, q)
        => /\ ListAfter(h[p].chat) = <<h[p].seen[2]>>
           /\ h'[q].pc = "await"
           /\ h'[q].resp \notin ErrorResponses]_vars

\* C7, amended: two overlapping /done 1 on <<A, B>> both succeed, the first
\* removing A and the second B, and the list ends empty; neither ends in an
\* error.
C7_BothRemoved ==
    [][\A p, q \in Procs :
        RacingDone(p, q)
        => /\ h[p].task = h[p].seen[1]
           /\ h'[q].pc = "await"
           /\ h'[q].resp = "Completed"
           /\ h'[q].task = h[p].seen[2]
           /\ ListAfter(h[p].chat) = <<>>]_vars

C7_Witness ==
    \E p, q \in Procs :
        /\ p # q
        /\ h[p].chat = h[q].chat
        /\ h[p].pc = "await" /\ h[p].cmd = "done" /\ h[p].args = Numeral(1)
        /\ h[q].pc = "await" /\ h[q].cmd = "done" /\ h[q].args = Numeral(1)
        /\ h[p].resp = "Completed" /\ h[q].resp = "Completed"
        /\ Len(h[p].seen) = 2
        /\ h[q].seen = <<h[p].seen[2]>>
        /\ h[p].task # h[q].task
        /\ List(h[p].chat) = <<>>

\* C8: no handler ever ends by raising; every invocation ends in a response.
C8_NoHandlerRaises == \A p \in Procs : h[p].pc # "raised"

\* The number an ASCII-digit token writes.
RECURSIVE AsciiNumber(_)
AsciiNumber(tok) ==
    IF tok = <<>> THEN 0
    ELSE 10 * AsciiNumber(SubSeq(tok, 1, Len(tok) - 1))
         + CHOOSE d \in 0..9 :
              <<"0", "1", "2", "3", "4", "5", "6", "7", "8", "9">>[d + 1] = tok[Len(tok)]

\* C9: on a non-empty list, /goto and /done accept the first word of the
\* argument as a number only if it is made of the digits 0-9 alone; any other
\* word gets InvalidArgument and changes nothing, and an accepted one is
\* answered by range alone.
C9_OnlyAsciiDigitsAccepted ==
    [][\A p \in Procs :
        (Runs(p, "goto") \/ Runs(p, "done")) /\ List(h'[p].chat) # <<>>
        => LET words == Split(h'[p].args)
               tok   == IF words = <<>> THEN <<>> ELSE words[1]
               ascii == /\ tok # <<>>
                        /\ \A i \in 1..Len(tok) :
                              tok[i] \in {"0", "1", "2", "3", "4", "5", "6", "7", "8", "9"}
           IN  /\ h'[p].pc = "await"
               /\ IF ~ascii
                  THEN /\ h'[p].resp = "InvalidArgument"
                       /\ ListAfter(h'[p].chat) = List(h'[p].chat)
                  ELSE IF AsciiNumber(tok) \in 1..Len(List(h'[p].chat))
                  THEN h'[p].resp \in {"Pointer", "Completed"}
                  ELSE h'[p].resp = "OutOfRange"]_vars

\* C10: /goto changes no list; /goto k with 1 <= k <= len replies to the
\* message of the task now at position k; when /goto does not succeed (empty
\* list, invalid number, out of range) no reply target is set.
C10_GotoReadOnly ==
    [][\A p \in Procs :
        Runs(p, "goto")
        => /\ \A c \in Chats : ListAfter(c) = List(c)
           /\ \A k \in 1..Len(List(h'[p].chat)) :
                 h'[p].args = Numeral(k)
                 => /\ h'[p].pc = "await"
                    /\ h'[p].resp = "Pointer"
                    /\ h'[p].reply_to = List(h'[p].chat)[k].msg_id
           /\ h'[p].resp # "Pointer" => h'[p].reply_to = 0]_vars

C10_Witness ==
    \E p \in Procs :
        /\ h[p].pc = "await" /\ h[p].cmd = "goto" /\ h[p].resp = "Pointer"
        /\ h[p].args = Numeral(2)
        /\ Len(List(h[p].chat)) = 2
        /\ h[p].reply_to = List(h[p].chat)[2].msg_id
        /\ List(h[p].chat)[1].msg_id # List(h[p].chat)[2].msg_id


\* The commands that look the chat's list up or replace it.
StoreCommands == {"list", "goto", "done", "add", "clear"}

\* C11: the first command on a chat that has no entry succeeds without a
\* lookup failure and finds the chat's list empty, with no registration
\* before it; entries are never lost, and a handler that looks up a chat that
\* has an entry (another handler's first access, still in flight or not) finds
\* the tasks that are there and keeps them.
C11_FirstAccess ==
    \A p \in Procs :
        h[p].pc = "idle" /\ h'[p].pc # "idle" /\ h'[p].cmd \in StoreCommands
        /\ h'[p].chat \notin DOMAIN tasks_by_chat
        => /\ h'[p].pc = "await"
           /\ CASE h'[p].cmd \in {"list", "goto", "done"} ->
                      /\ h'[p].resp = "NoTasks"
                      /\ h'[p].chat \in DOMAIN tasks_by_chat'
                      /\ tasks_by_chat'[h'[p].chat] = <<>>
                [] h'[p].cmd = "clear" ->
                      /\ h'[p].resp = "Cleared"
                      /\ h'[p].chat \in DOMAIN tasks_by_chat'
                      /\ tasks_by_chat'[h'[p].chat] = <<>>
                [] h'[p].cmd = "add" ->
                      \/ h'[p].resp = "EmptyArgument" /\ tasks_by_chat' = tasks_by_chat
                      \/ /\ h'[p].resp = "Added"
                         /\ h'[p].chat \in DOMAIN tasks_by_chat'
                         /\ tasks_by_chat'[h'[p].chat] = <<h'[p].task>>

C11_NothingLost ==
    /\ DOMAIN tasks_by_chat \subseteq DOMAIN tasks_by_chat'
    /\ \A p \in Procs :
          h[p].pc = "idle" /\ h'[p].pc # "idle" /\ h'[p].chat \in DOMAIN tasks_by_chat
          => CASE h'[p].cmd \in {"list", "goto"} ->
                     tasks_by_chat'[h'[p].chat] = tasks_by_chat[h'[p].chat]
               [] h'[p].cmd = "add" /\ h'[p].resp = "Added" ->
                     tasks_by_chat'[h'[p].chat]
                         = tasks_by_chat[h'[p].chat] \o <<h'[p].task>>
               [] OTHER -> TRUE

C11_AutoCreation == [][C11_FirstAccess /\ C11_NothingLost]_vars

\* Two handlers in flight on the only chat that has an entry: a lookup that
\* found no tasks and an add whose task is the chat's list.
C11_Witness ==
    \E p, q \in Procs : \E c \in Chats :
        /\ p # q
        /\ DOMAIN tasks_by_chat = {c}
        /\ h[p].pc = "await" /\ h[p].chat = c /\ h[p].cmd \in {"list", "goto", "done"}
        /\ h[p].resp = "NoTasks"
        /\ h[q].pc = "await" /\ h[q].chat = c /\ h[q].cmd = "add"
        /\ h[q].resp = "Added"
        /\ tasks_by_chat[c] = <<h[q].task>>


\* C12: on a chat, the store effects of commands take place in the order in
\* which their handlers were started: a chat's list (or entry) changes only in
\* the step in which a handler of that chat starts, as the effect of that
\* handler, and a handler that starts while an earlier one is suspended in
\* its reply leaves the earlier one as it is.
C12_EffectAtStart ==
    /\ \A c \in Chats :
          ListAfter(c) # List(c)
          \/ (c \in DOMAIN tasks_by_chat') # (c \in DOMAIN tasks_by_chat)
          => \E p \in Procs :
                /\ h[p].pc = "idle" /\ h'[p].pc # "idle"
                /\ h'[p].chat = c
                /\ h'[p].cmd \in StoreCommands
    /\ \A p, q \in Procs :
          p # q /\ h[p].pc # "idle" /\ h[q].pc = "idle" /\ h'[q].pc # "idle"
          => h'[p] = h[p]

C12_FifoPerChat == [][C12_EffectAtStart]_vars

\* Two adds in flight on one chat, the list holding the task of the one
\* started first before the task of the other.
C12_Witness ==
    \E p, q \in Procs :
        /\ p # q
        /\ h[p].chat = h[q].chat
        /\ h[p].pc = "await" /\ h[p].cmd = "add" /\ h[p].resp = "Added"
        /\ h[q].pc = "await" /\ h[q].cmd = "add" /\ h[q].resp = "Added"
        /\ h[p].task # h[q].task
        /\ List(h[p].chat) = <<h[p].task, h[q].task>>


\* C13: /list on a chat with no tasks (or no entry) gives the no-tasks
\* response; on a list of n >= 1 tasks it gives the header and exactly n
\* lines, line i made of i, the text of the task at position i and its
\* added_by; /list changes no list.
C13_ListRenders ==
    [][\A p \in Procs :
        Runs(p, "list")
        => /\ h'[p].pc = "await"
           /\ \A c \in Chats : ListAfter(c) = List(c)
           /\ IF List(h'[p].chat) = <<>>
              THEN h'[p].resp = "NoTasks" /\ h'[p].lines = <<>>
              ELSE /\ h'[p].resp = "Listing"
                   /\ Len(h'[p].lines) = Len(List(h'[p].chat))
                   /\ \A i \in 1..Len(List(h'[p].chat)) :
                         /\ h'[p].lines[i].n = i
                         /\ h'[p].lines[i].text = List(h'[p].chat)[i].text
                         /\ h'[p].lines[i].by = List(h'[p].chat)[i].added_by]_vars

C13_Witness ==
    \E p \in Procs :
        /\ h[p].pc = "await" /\ h[p].cmd = "list" /\ h[p].resp = "Listing"
        /\ Len(h[p].lines) = 2
        /\ List(h[p].chat) = <<[text |-> <<"a">>, msg_id |-> 101, added_by |-> <<"@", "ann">>],
                               [text |-> <<"b">>, msg_id |-> 102, added_by |-> <<"Someone">>]>>
        /\ h[p].lines[2] = [n |-> 2, text |-> <<"b">>, by |-> <<"Someone">>]


\* C14: the added_by label /add stores is "@" and the handle when the sender
\* has a handle, else the full name when that is not empty, else the first
\* name when that is not empty, else "Someone"; it is never empty, and the
\* label in the confirmation is the one stored in the appended task.
C14_Label(user) ==
    CASE user.username # ""   -> <<"@", user.username>>
      [] user.username = "" /\ user.full_name # "" -> <<user.full_name>>
      [] user.username = "" /\ user.full_name = "" /\ user.first_name # ""
                              -> <<user.first_name>>
      [] OTHER                -> <<"Someone">>

C14_AddedByChain ==
    [][\A p \in Procs :
        Runs(p, "add") /\ h'[p].resp = "Added"
        => LET new == ListAfter(h'[p].chat) IN
           /\ Len(new) = Len(List(h'[p].chat)) + 1
           /\ new[Len(new)].added_by = C14_Label(h'[p].user)
           /\ new[Len(new)].added_by # <<>>
           /\ \A i \in 1..Len(new[Len(new)].added_by) :
                 new[Len(new)].added_by[i] # ""
           /\ h'[p].task.added_by = new[Len(new)].added_by]_vars

C14_Witness ==
    /\ h["t1"].pc = "await" /\ h["t1"].cmd = "add" /\ h["t1"].resp = "Added"
    /\ h["t1"].user = UserNone
    /\ h["t1"].task.added_by = <<"Someone">>
    /\ Len(List(1)) = 2
    /\ List(1)[1].added_by = <<"Bob Ray">>
    /\ List(1)[2].added_by = <<"Someone">>


\* What /done did in this step is what the checks of /goto give for the list
\* /done found and the same argument text: the same way of ending, the same
\* error response or success on the same task at the same index; on success
\* /done has removed the task at that index, otherwise the list is as it was.
C15_DoneAsGoto(p) ==
    LET old == List(h'[p].chat)
        o   == GotoOutcome(old, h'[p].args)
    IN  /\ h'[p].pc = o.pc
        /\ h'[p].resp = (IF o.resp = "Pointer" THEN "Completed" ELSE o.resp)
        /\ h'[p].task = o.task
        /\ IF o.resp = "Pointer"
           THEN Without(old, o.index + 1, ListAfter(h'[p].chat))
           ELSE ListAfter(h'[p].chat) = old

\* What /goto did in this step is what GotoOutcome says, on an unchanged list.
C15_GotoAsOutcome(p) ==
    LET o == GotoOutcome(List(h'[p].chat), h'[p].args)
    IN  /\ h'[p].pc = o.pc /\ h'[p].resp = o.resp /\ h'[p].task = o.task
        /\ ListAfter(h'[p].chat) = List(h'[p].chat)

\* C15: for every list and every argument text /done and /goto fall in the
\* same outcome class, one of NoTasks, InvalidArgument, OutOfRange and
\* success at the same position; they differ only in that a successful /done
\* removes the task at that position and /goto removes nothing.
C15_DoneChecksAsGoto ==
    [][\A p \in Procs :
        /\ Runs(p, "goto")
           => /\ C15_GotoAsOutcome(p)
              /\ h'[p].pc = "await"
              /\ h'[p].resp \in {"NoTasks", "InvalidArgument", "OutOfRange", "Pointer"}
        /\ Runs(p, "done")
           => /\ C15_DoneAsGoto(p)
              /\ h'[p].pc = "await"
              /\ h'[p].resp \in {"NoTasks", "InvalidArgument", "OutOfRange",
                                 "Completed"}]_vars

\* The part of C15 that compares the two commands, handlers that raise
\* included: it holds.
C15_SameChecks ==
    [][\A p \in Procs :
        /\ Runs(p, "goto") => C15_GotoAsOutcome(p)
        /\ Runs(p, "done") => C15_DoneAsGoto(p)]_vars


\* C16: in /goto and /done, when the chat's list is empty the response is
\* NoTasks whatever the argument text (none, not a number, a number);
\* InvalidArgument is only answered when the list is not empty, and
\* OutOfRange only when the list is not empty and the first token passed
\* the digit test.
C16_CheckPrecedence ==
    [][\A p \in Procs :
        Runs(p, "goto") \/ Runs(p, "done")
        => LET old  == List(h'[p].chat)
               args == Split(h'[p].args)
           IN  /\ old = <<>> => h'[p].pc = "await" /\ h'[p].resp = "NoTasks"
               /\ h'[p].resp = "InvalidArgument" => old # <<>>
               /\ h'[p].resp = "OutOfRange"
                  => old # <<>> /\ args # <<>> /\ isdigit(args[1])]_vars

C16_Witness ==
    /\ List(1) = <<>>
    /\ h["t1"].pc = "await" /\ h["t1"].chat = 1
    /\ h["t1"].cmd \in {"goto", "done"}
    /\ h["t1"].args \in {<<"x">>, <<"sup2">>}
    /\ h["t1"].resp = "NoTasks"


\* C17: in every reachable state every task of every chat's list has a text
\* that is not empty and neither starts nor ends with whitespace; no
\* sequence of commands stores an empty or whitespace-only text.
C17_TextsTrimmed ==
    \A c \in DOMAIN tasks_by_chat :
        \A i \in 1..Len(tasks_by_chat[c]) :
            LET text == tasks_by_chat[c][i].text
            IN  /\ text # <<>>
                /\ ~IsSpace(text[1])
                /\ ~IsSpace(text[Len(text)])
                /\ \E k \in 1..Len(text) : ~IsSpace(text[k])

C17_Witness ==
    /\ h["t1"].pc = "await" /\ h["t1"].cmd = "add" /\ h["t1"].chat = 1
    /\ h["t1"].args = <<" ", " ">>
    /\ h["t1"].resp = "EmptyArgument"
    /\ Len(List(1)) = 1
    /\ List(1)[1].text = <<"b", " ", "c">>


\* Handler p produces the response resp in this step.
Produces(p, resp) ==
    /\ h[p].pc # "await"
    /\ h'[p].pc = "await"
    /\ h'[p].resp = resp

\* C18: under every interleaving of handlers on a chat, an append or a
\* removal is applied to the list that is the chat's entry in the map at that
\* moment: the step in which /add reports a task turns the chat's entry into
\* that entry with the task appended (also right after a /clear), and the
\* step in which /done reports a task removes that task from the chat's
\* entry, where it was; no task of an already cleared list is reported or
\* removed.
C18_MutatesCurrentEntry ==
    [][\A p \in Procs :
        LET old == List(h'[p].chat)
            new == ListAfter(h'[p].chat)
        IN  /\ Produces(p, "Added")
               => new = Append(old, h'[p].task)
            /\ Produces(p, "Completed")
               => \E k \in 1..Len(old) :
                     /\ old[k] = h'[p].task
                     /\ Without(old, k, new)
            /\ Produces(p, "Cleared") => new = <<>>]_vars

C18_Witness ==
    \E p, q \in Procs :
        /\ h[p].pc = "await" /\ h[p].cmd = "clear" /\ h[p].chat = 1
        /\ h[q].pc = "await" /\ h[q].chat = 1
        /\ h[q].cmd = "add" /\ h[q].resp = "Added"
        /\ List(1) = <<h[q].task>>


\* C19: in /add, /done and /clear the store is changed before the handler
\* starts to send its confirmation: in the step that brings the handler to
\* the await of its confirmation the chat's list already has the task added,
\* has the task removed, or is empty; and the step that ends the await (the
\* response sent, or sending failed) changes no list, so nothing is applied
\* late and nothing is rolled back.
C19_MutationPrecedesResponse ==
    [][\A p \in Procs :
        LET old == List(h'[p].chat)
            new == ListAfter(h'[p].chat)
        IN  /\ Produces(p, "Added")
               => /\ Len(new) = Len(old) + 1
                  /\ new[Len(new)] = h'[p].task
            /\ Produces(p, "Completed")
               => /\ Len(new) = Len(old) - 1
                  /\ \E k \in 1..Len(old) : old[k] = h'[p].task
            /\ Produces(p, "Cleared")
               => /\ new = <<>>
                  /\ h'[p].chat \in DOMAIN tasks_by_chat'
            /\ h[p].pc = "await" /\ h'[p] # h[p]
               => /\ h'[p].pc = "idle"
                  /\ tasks_by_chat' = tasks_by_chat]_vars

\* While /done still waits for its confirmation to be sent, a /list that ran
\* after it has already seen the list without the removed task.
C19_Witness ==
    \E p, q \in Procs :
        /\ h[p].pc = "await" /\ h[p].cmd = "done" /\ h[p].resp = "Completed"
        /\ Len(h[p].seen) = 2
        /\ h[p].task = h[p].seen[1]
        /\ h[q].pc = "await" /\ h[q].cmd = "list" /\ h[q].chat = h[p].chat
        /\ Len(h[q].lines) = 1
        /\ h[q].lines[1].text = h[p].seen[2].text
        /\ List(h[p].chat) = <<h[p].seen[2]>>


\* The responses a handler sends.
Responses ==
    {"Welcome", "Help", "Added", "EmptyArgument", "NoTasks", "Listing",
     "InvalidArgument", "OutOfRange", "Pointer", "Completed", "Cleared"}

\* An invocation goes from its start straight to the await of one response
\* and ends from there: no path ends without a response, none sends two.
C20_OneResponseStep ==
    \A p \in Procs :
        /\ h[p].pc = "idle" /\ h'[p].pc # "idle"
           => h'[p].pc = "await" /\ h'[p].resp \in Responses
        /\ h[p].pc # "idle" /\ h'[p] # h[p]
           => h[p].pc = "await" /\ h'[p].pc = "idle"

\* Every invocation that has started ends.
C20_Terminates == \A p \in Procs : (h[p].pc # "idle") ~> (h[p].pc = "idle")

\* C20: every invocation of every handler, on every control path (success
\* and each error branch), eventually sends exactly one response and then
\* ends; no path ends without a response and none sends two.
C20_ExactlyOneResponse == [][C20_OneResponseStep]_vars /\ C20_Terminates

====
